---- MODULE Spec2Model ----
(***************************************************************************)
(* Model of the ExpenseTracker Streamlit application (src/app.py).         *)
(*                                                                         *)
(* The script is re-executed from the top on every interaction of a        *)
(* browser session.  A run is modelled in two steps per session:           *)
(*   Begin   lines 7-95   storage set-up, login guard, load, partition     *)
(*   handler lines 97-160 the one button that triggered the run            *)
(* so that runs of different sessions interleave between the load and the  *)
(* save of the shared backend.  Each save_data call is one step.           *)
(*                                                                         *)
(* A second specification, SpecHistory, applies the History Manager        *)
(* functions save_state / undo / redo (lines 67-79) in every order.        *)
(***************************************************************************)
EXTENDS Integers, Sequences, FiniteSets, Bags, TLC

VARIABLES
    USE_GOOGLE_SHEETS,  \* line 7 / 49: backend selected by the storage set-up
    exists,             \* the worksheet (or the CSV file) is present
    hasUserCol,         \* the stored header has a "User" column
    records,            \* stored data rows, in order
    pc,                 \* per session: position of the script run
    username,           \* per session: line 83
    button,             \* per session: the widget that triggered the run
    df,                 \* per session: script variable df
    user_df,            \* per session: script variable user_df
    edited_user_df,     \* per session: script variable edited_user_df
    category_text,      \* per session: text typed in the Category field, line 101
    summary,            \* per session: the Year/Month summary shown, lines 162-203
    trend,              \* per session: the price trend shown, lines 205-222
    sess_df,            \* per session: st.session_state.df
    history,            \* per session: st.session_state.history
    redo_stack,         \* per session: st.session_state.redo_stack
    lastOp              \* per session: History Manager function last called

vars == <<USE_GOOGLE_SHEETS, exists, hasUserCol, records, pc, username, button,
          df, user_df, edited_user_df, category_text, summary, trend,
          sess_df, history, redo_stack, lastOp>>

backendVars == <<USE_GOOGLE_SHEETS, exists, hasUserCol, records>>
scriptVars == <<pc, username, button, df, user_df, edited_user_df, category_text,
                summary, trend>>
historyVars == <<sess_df, history, redo_stack, lastOp>>

----------------------------------------------------------------------------
(* Bounds *)

MaxRows == 2        \* Add Expense and Save Changes do not grow a table beyond this
MaxPart == 1        \* most rows the data editor returns
MaxHist == 2        \* most snapshots held by the two history stacks together
MaxAgg == 3         \* most rows of a partition given to the Aggregator on its own

----------------------------------------------------------------------------
(* Values *)

Sessions == {"s1", "s2"}

DefaultUser == "User1"                  \* lines 83, 91
Users == {DefaultUser, "Ann"}
NameInputs == Users \cup {"", " "}      \* what can be typed at line 83

None == "<None>"                        \* a missing cell value (None / NaN)

Items == {"x", "y"}
CategoryInputs == {"", "Food"}          \* what can be typed at line 101

Columns == <<"Date", "Category", "Item", "Shop", "PricePaid", "Quantity",
             "QuantityUnit", "User">>

\* lines 127-136: PricePaid in hundredths (format "%.2f", line 124), Quantity
\* in thousandths (format "%.3f", line 119)
Expense(date, category, item, price, quantity, user) ==
    [Date |-> date, Category |-> category, Item |-> item, Shop |-> "",
     PricePaid |-> price, Quantity |-> quantity, QuantityUnit |-> "Count",
     User |-> user]

\* faulty variant of Row: the row is owned by the default user, whoever adds it
RowOfDefaultUser(category, item, user) ==
    Expense("2023-01-15", category, item, 10, 1000, DefaultUser)

\* a row as Add Expense builds it (lines 127-136) on one date for one price
Row(category, item, user) == Expense("2023-01-15", category, item, 10, 1000, user)

Range(seq) == {seq[i] : i \in DOMAIN seq}

SeqsUpTo(S, n) == UNION {[1..k -> S] : k \in 0..n}

BagOf(seq) == [r \in Range(seq) |-> Cardinality({i \in DOMAIN seq : seq[i] = r})]

----------------------------------------------------------------------------
(* Conversions of the two backends *)

\* line 83: .strip()
strip(name) == IF name = " " THEN "" ELSE name

\* line 45: df.astype(str) turns a missing value into the text "None"
astype_str(table) ==
    [i \in DOMAIN table |->
        IF table[i].User = None THEN [table[i] EXCEPT !.User = "None"] ELSE table[i]]

\* line 59: to_csv writes a missing value as an empty field
to_csv(table) ==
    [i \in DOMAIN table |->
        IF table[i].User = None THEN [table[i] EXCEPT !.User = ""] ELSE table[i]]

\* line 37: get_all_records returns the cell texts; only a text that reads as
\* a number comes back as a number, and no text of the model does
get_all_records(stored) == stored

\* line 54: read_csv reads an empty field as a missing value
read_csv(stored) ==
    [i \in DOMAIN stored |->
        IF stored[i].User = "" THEN [stored[i] EXCEPT !.User = None] ELSE stored[i]]

\* lines 36-40 / 52-56: the table load_data returns when the read succeeds;
\* a stored row without a User cell comes back without a User value
load_data(present, userCol, stored) ==
    LET raw == IF USE_GOOGLE_SHEETS THEN get_all_records(stored) ELSE read_csv(stored)
    IN  IF ~present THEN <<>>
        ELSE IF userCol THEN raw
        ELSE [i \in DOMAIN raw |-> [raw[i] EXCEPT !.User = None]]

\* lines 90-91: a table without a User column gets one, filled with "User1"
default_owner(userCol, table) ==
    IF userCol THEN table
    ELSE [i \in DOMAIN table |-> [table[i] EXCEPT !.User = DefaultUser]]

\* lines 42-45 / 58-59: what the backend holds after save_data(table)
written(table) ==
    IF USE_GOOGLE_SHEETS THEN astype_str(table) ELSE to_csv(table)

----------------------------------------------------------------------------
(* Partition and reconcile *)

\* line 94: df[df["User"] == username]
partition(table, user) == SelectSeq(table, LAMBDA r : r.User = user)

\* line 156: df[df["User"] != username]
others(table, user) == SelectSeq(table, LAMBDA r : r.User # user)

\* faulty variants of reconcile: the owner's old rows are kept; the other
\* users' rows are dropped
reconcile_keeps_owned(table, user, edited) == table \o edited
reconcile_drops_others(table, user, edited) == edited

\* lines 156-157
reconcile(table, user, edited) == others(table, user) \o edited

\* line 153: what the data editor can return (rows added, deleted, any cell
\* edited, the User cell included; an added row has no User unless typed)
EditorRows == {Row("Food", i, u) : i \in Items, u \in Users \cup {None}}
EditorOutputs == SeqsUpTo(EditorRows, MaxPart)

----------------------------------------------------------------------------
(* Aggregator, lines 162-222 *)

\* line 165: pd.to_datetime of the date texts of the model
to_datetime(date) ==
    CASE date = "2023-01-15" -> [year |-> 2023, month |-> 1, day |-> 15]
      [] date = "2023-01-20" -> [year |-> 2023, month |-> 1, day |-> 20]
      [] date = "2023-02-01" -> [year |-> 2023, month |-> 2, day |-> 1]
      [] date = "2023-10-05" -> [year |-> 2023, month |-> 10, day |-> 5]
      [] date = "2024-01-10" -> [year |-> 2024, month |-> 1, day |-> 10]

\* line 167: strftime("%B")
MonthNames == <<"January", "February", "March", "April", "May", "June", "July",
                "August", "September", "October", "November", "December">>

\* position of a month name among the twelve names in alphabetical order
AlphaRank == <<5, 4, 8, 1, 9, 7, 6, 2, 12, 11, 10, 3>>

\* order of two keys as groupby sorts them: tuples of numbers, and texts as
\* tuples of their characters, compare element by element
RECURSIVE LexLess(_, _)
LexLess(a, b) ==
    IF a = <<>> THEN b # <<>>
    ELSE IF b = <<>> THEN FALSE
    ELSE IF Head(a) # Head(b) THEN Head(a) < Head(b)
    ELSE LexLess(Tail(a), Tail(b))

\* the keys of a groupby in the order it yields its groups
RECURSIVE SortKeys(_)
SortKeys(keys) ==
    IF keys = {} THEN <<>>
    ELSE LET least == CHOOSE k \in keys : \A other \in keys \ {k} : LexLess(k, other)
         IN  <<least>> \o SortKeys(keys \ {least})

\* line 166
YearKey(r) == <<to_datetime(r.Date).year>>

\* faulty variant of MonthKey: the months are grouped by name alone
MonthKeyByName(r) == <<AlphaRank[to_datetime(r.Date).month]>>

\* lines 167-168, 185: the key (MonthNum, Month); the name is held by its
\* alphabetical position
MonthKey(r) == <<to_datetime(r.Date).month, AlphaRank[to_datetime(r.Date).month]>>

\* line 216: dt.to_period("M").astype(str), the digits of "YYYY-MM"
YearMonthKey(r) ==
    LET y == to_datetime(r.Date).year
        m == to_datetime(r.Date).month
    IN  <<y \div 1000, (y \div 100) % 10, (y \div 10) % 10, y % 10, m \div 10, m % 10>>

\* lines 172, 188: ["PricePaid"].sum()
RECURSIVE SumPrice(_)
SumPrice(rows) ==
    IF rows = <<>> THEN 0 ELSE Head(rows).PricePaid + SumPrice(Tail(rows))

\* lines 175, 191: the pie of PricePaid by Category
CategorySplit(rows) ==
    [c \in {r.Category : r \in Range(rows)} |->
        SumPrice(SelectSeq(rows, LAMBDA r : r.Category = c))]

\* lines 179, 196: groupby("Item")["PricePaid"].sum()
ItemBreakdown(rows) ==
    [i \in {r.Item : r \in Range(rows)} |->
        SumPrice(SelectSeq(rows, LAMBDA r : r.Item = i))]

\* lines 185-203: one month of a year
MonthRollup(year_df, key) ==
    LET month_df == SelectSeq(year_df, LAMBDA r : MonthKey(r) = key)
    IN  [MonthNum |-> to_datetime(month_df[1].Date).month,
         Month |-> MonthNames[to_datetime(month_df[1].Date).month],
         total |-> SumPrice(month_df),
         category |-> CategorySplit(month_df),
         item |-> ItemBreakdown(month_df),
         transactions |-> month_df]

\* faulty variant of YearRollup: the year's figures are taken over the records
\* of every year
YearRollupAllYears(partition_df, key) ==
    LET year_df == partition_df
        months == SortKeys({MonthKey(r) : r \in Range(year_df)})
    IN  [Year |-> key[1],
         total |-> SumPrice(year_df),
         category |-> CategorySplit(year_df),
         item |-> ItemBreakdown(year_df),
         months |-> [k \in DOMAIN months |-> MonthRollup(year_df, months[k])]]

\* lines 170-203: one year
YearRollup(partition_df, key) ==
    LET year_df == SelectSeq(partition_df, LAMBDA r : YearKey(r) = key)
        months == SortKeys({MonthKey(r) : r \in Range(year_df)})
    IN  [Year |-> key[1],
         total |-> SumPrice(year_df),
         category |-> CategorySplit(year_df),
         item |-> ItemBreakdown(year_df),
         months |-> [k \in DOMAIN months |-> MonthRollup(year_df, months[k])]]

\* faulty variant of YearMonthSummary: the guard on the empty partition is
\* missing
YearMonthSummaryUnguarded(partition_df) ==
    LET years == SortKeys({YearKey(r) : r \in Range(partition_df)})
    IN  [shown |-> TRUE,
         years |-> [k \in DOMAIN years |-> YearRollup(partition_df, years[k])]]

\* lines 164-203: what the summary section shows
YearMonthSummary(partition_df) ==
    IF partition_df = <<>> THEN [shown |-> FALSE, years |-> <<>>]
    ELSE LET years == SortKeys({YearKey(r) : r \in Range(partition_df)})
         IN  [shown |-> TRUE,
              years |-> [k \in DOMAIN years |-> YearRollup(partition_df, years[k])]]

\* a ratio of two integers in lowest terms
RECURSIVE Gcd(_, _)
Gcd(a, b) == IF b = 0 THEN a ELSE Gcd(b, a % b)
Ratio(n, d) == [num |-> n \div Gcd(n, d), den |-> d \div Gcd(n, d)]

\* faulty variant of PricePerUnit: no guard on a zero quantity; the division
\* of a positive price by zero shows as the ratio 1/0
PricePerUnitUnguarded(r) ==
    IF r.Quantity = 0 THEN [num |-> 1, den |-> 0]
    ELSE Ratio(r.PricePaid * 1000, r.Quantity)

\* lines 208-210: PricePaid / Quantity.replace(0, 1), in hundredths per unit
PricePerUnit(r) ==
    Ratio(r.PricePaid * 1000, IF r.Quantity = 0 THEN 1000 ELSE r.Quantity)

\* line 217: ["PricePerUnit"].mean()
RECURSIVE SumRatio(_)
SumRatio(rows) ==
    IF rows = <<>> THEN Ratio(0, 1)
    ELSE LET a == PricePerUnit(Head(rows))
             b == SumRatio(Tail(rows))
         IN  Ratio(a.num * b.den + b.num * a.den, a.den * b.den)
MeanPricePerUnit(rows) ==
    Ratio(SumRatio(rows).num, SumRatio(rows).den * Len(rows))

\* line 211: the items offered by the selectbox
item_options(partition_df) == {r.Item : r \in Range(partition_df)}

\* lines 207-222: the PricePerUnit column given to user_df and what the trend
\* section shows for the selected item
PriceTrend(partition_df, selected_item) ==
    IF partition_df = <<>>
    THEN [shown |-> FALSE, PricePerUnit |-> <<>>, item |-> "", series |-> <<>>]
    ELSE LET item_df == SelectSeq(partition_df, LAMBDA r : r.Item = selected_item)
             months == SortKeys({YearMonthKey(r) : r \in Range(item_df)})
         IN  [shown |-> TRUE,
              PricePerUnit |-> [k \in DOMAIN partition_df |-> PricePerUnit(partition_df[k])],
              item |-> selected_item,
              series |-> [k \in DOMAIN months |->
                  [YearMonth |-> months[k],
                   PricePerUnit |-> MeanPricePerUnit(
                       SelectSeq(item_df, LAMBDA r : YearMonthKey(r) = months[k]))]]]

----------------------------------------------------------------------------
(* Initial state *)

InitTables ==
    { <<>>,
      <<Row("Food", "x", "User1")>>,
      <<Row("Food", "x", "User1"), Row("Food", "x", "Ann")>>,
      <<Row("Food", "y", "Ann"), Row("Food", "x", "User1"), Row("Food", "y", "Ann")>> }

\* a table stored before the application had users: no User column
LegacyTables == { <<Row("Food", "x", "")>> }

Init ==
    /\ USE_GOOGLE_SHEETS \in BOOLEAN
    /\ \/ exists = FALSE /\ hasUserCol = TRUE /\ records = <<>>
       \/ exists = TRUE /\ hasUserCol = TRUE /\ records \in InitTables
       \/ exists = TRUE /\ hasUserCol = FALSE /\ records \in LegacyTables
    /\ pc = [s \in Sessions |-> "idle"]
    /\ username = [s \in Sessions |-> ""]
    /\ button = [s \in Sessions |-> "none"]
    /\ df = [s \in Sessions |-> <<>>]
    /\ user_df = [s \in Sessions |-> <<>>]
    /\ edited_user_df = [s \in Sessions |-> <<>>]
    /\ category_text = [s \in Sessions |-> ""]
    /\ summary = [s \in Sessions |-> YearMonthSummary(<<>>)]
    /\ trend = [s \in Sessions |-> PriceTrend(<<>>, "")]
    /\ sess_df = [s \in Sessions |-> <<>>]
    /\ history = [s \in Sessions |-> <<>>]
    /\ redo_stack = [s \in Sessions |-> <<>>]
    /\ lastOp = [s \in Sessions |-> "none"]

----------------------------------------------------------------------------
(* History Manager, lines 67-79 *)

\* st.session_state of one session, as the History Manager sees it
SessionState(s) == [df |-> sess_df[s], history |-> history[s], redo_stack |-> redo_stack[s]]

Last(seq) == seq[Len(seq)]
Front(seq) == SubSeq(seq, 1, Len(seq) - 1)

\* faulty variant of save_state: the redo stack is not cleared
save_state_keeps_redo(ss) == [ss EXCEPT !.history = Append(@, ss.df)]

\* lines 67-69
save_state(ss) ==
    [ss EXCEPT !.history = Append(@, ss.df), !.redo_stack = <<>>]

\* faulty variant of undo: the current state is not pushed for redo
undo_without_push(ss) ==
    IF ss.history # <<>>
    THEN [ss EXCEPT !.df = Last(ss.history), !.history = Front(ss.history)]
    ELSE ss

\* lines 71-74
undo(ss) ==
    IF ss.history # <<>>
    THEN [df |-> Last(ss.history),
          history |-> Front(ss.history),
          redo_stack |-> Append(ss.redo_stack, ss.df)]
    ELSE ss

\* faulty variant of redo: the guard on the empty stack is missing
redo_unguarded(ss) ==
    [df |-> IF ss.redo_stack # <<>> THEN Last(ss.redo_stack) ELSE <<>>,
     history |-> Append(ss.history, ss.df),
     redo_stack |-> IF ss.redo_stack # <<>> THEN Front(ss.redo_stack) ELSE <<>>]

\* lines 76-79
redo(ss) ==
    IF ss.redo_stack # <<>>
    THEN [df |-> Last(ss.redo_stack),
          history |-> Append(ss.history, ss.df),
          redo_stack |-> Front(ss.redo_stack)]
    ELSE ss

\* line 95: st.session_state.df = user_df
assign(ss, p) == [ss EXCEPT !.df = p]

\* session s calls a History Manager function whose result is ss
Call(s, op, ss) ==
    /\ sess_df' = [sess_df EXCEPT ![s] = ss.df]
    /\ history' = [history EXCEPT ![s] = ss.history]
    /\ redo_stack' = [redo_stack EXCEPT ![s] = ss.redo_stack]
    /\ lastOp' = [lastOp EXCEPT ![s] = op]

----------------------------------------------------------------------------
(* The script run *)

Buttons == {"none", "add", "undo", "redo", "save"}

\* faulty variant of the login guard: an empty name is let through
LoginNeverHalts(name) == FALSE

\* lines 84-86
LoginHalts(name) == name = ""

\* lines 14-34: with the spreadsheet service in use a missing worksheet is
\* created holding the schema header; the CSV fallback creates nothing
created == USE_GOOGLE_SHEETS /\ ~exists

\* faulty variant of save_data: the rows are appended to what is stored
save_data_appends(table) ==
    /\ exists' = TRUE
    /\ hasUserCol' = TRUE
    /\ records' = records \o written(table)
    /\ UNCHANGED USE_GOOGLE_SHEETS

\* line 45 / 59
save_data(table) ==
    /\ exists' = TRUE
    /\ hasUserCol' = TRUE
    /\ records' = written(table)
    /\ UNCHANGED USE_GOOGLE_SHEETS

\* lines 162-222: the two sections below the editor, computed from user_df as
\* the handler left it; the trend is drawn for the item picked at line 211
Display(s, partition_df) ==
    /\ summary' = [summary EXCEPT ![s] = YearMonthSummary(partition_df)]
    /\ \E selected_item \in (IF partition_df = <<>> THEN {""} ELSE item_options(partition_df)) :
          trend' = [trend EXCEPT ![s] = PriceTrend(partition_df, selected_item)]

\* lines 7-95: a rerun starts.  A button can only be the trigger when the
\* previous run rendered the page.  A read that fails with anything but
\* FileNotFoundError is not caught and ends the run.
Begin(s, names, buttons) ==
    /\ pc[s] \in {"idle", "stopped", "failed", "done"}
    /\ exists' = (exists \/ created)
    /\ hasUserCol' = (hasUserCol \/ created)
    /\ records' = IF created THEN <<>> ELSE records
    /\ UNCHANGED USE_GOOGLE_SHEETS
    /\ \E name \in names, b \in buttons, readable \in BOOLEAN :
          LET table == default_owner(hasUserCol', load_data(exists', hasUserCol', records'))
          IN  /\ b # "none" => pc[s] = "done"
              /\ username' = [username EXCEPT ![s] = strip(name)]
              /\ button' = [button EXCEPT ![s] = b]
              /\ IF LoginHalts(strip(name))
                 THEN /\ pc' = [pc EXCEPT ![s] = "stopped"]
                      /\ df' = [df EXCEPT ![s] = <<>>]
                      /\ user_df' = [user_df EXCEPT ![s] = <<>>]
                      /\ sess_df' = sess_df
                 ELSE IF exists' /\ ~readable
                 THEN /\ pc' = [pc EXCEPT ![s] = "failed"]
                      /\ df' = [df EXCEPT ![s] = <<>>]
                      /\ user_df' = [user_df EXCEPT ![s] = <<>>]
                      /\ sess_df' = sess_df
                 ELSE /\ pc' = [pc EXCEPT ![s] = "loaded"]
                      /\ df' = [df EXCEPT ![s] = table]
                      /\ user_df' = [user_df EXCEPT ![s] = partition(table, strip(name))]
                      /\ sess_df' = [sess_df EXCEPT ![s] = partition(table, strip(name))]
    /\ edited_user_df' = [edited_user_df EXCEPT ![s] = <<>>]
    /\ category_text' = [category_text EXCEPT ![s] = ""]
    /\ Display(s, <<>>)
    /\ lastOp' = [lastOp EXCEPT ![s] = "none"]
    /\ UNCHANGED <<history, redo_stack>>

\* variant of AddExpense with the checkpoint the handler does not take: it
\* calls save_state before it appends the row
AddExpenseWithCheckpoint(s) ==
    /\ pc[s] = "loaded"
    /\ button[s] = "add"
    /\ Len(df[s]) < MaxRows
    /\ \E text \in CategoryInputs, item \in Items :
          LET categories == {r.Category : r \in Range(user_df[s])}
              choices == IF text = "" /\ categories # {} THEN categories ELSE {text}
          IN  \E category \in choices :
                LET new_row == Row(IF category # "" THEN category ELSE "Uncategorized",
                                   item, username[s])
                IN  /\ category_text' = [category_text EXCEPT ![s] = text]
                    /\ df' = [df EXCEPT ![s] = Append(@, new_row)]
                    /\ save_data(Append(df[s], new_row))
    /\ Display(s, user_df[s])
    /\ pc' = [pc EXCEPT ![s] = "done"]
    /\ Call(s, "save_state", save_state(SessionState(s)))
    /\ UNCHANGED <<username, button, user_df, edited_user_df>>

\* lines 100-103, 126-139
AddExpense(s) ==
    /\ pc[s] = "loaded"
    /\ button[s] = "add"
    /\ Len(df[s]) < MaxRows
    /\ \E text \in CategoryInputs, item \in Items :
          LET categories == {r.Category : r \in Range(user_df[s])}
              choices == IF text = "" /\ categories # {} THEN categories ELSE {text}
          IN  \E category \in choices :
                LET new_row == Row(IF category # "" THEN category ELSE "Uncategorized",
                                   item, username[s])
                IN  /\ category_text' = [category_text EXCEPT ![s] = text]
                    /\ df' = [df EXCEPT ![s] = Append(@, new_row)]
                    /\ save_data(Append(df[s], new_row))
    /\ Display(s, user_df[s])
    /\ pc' = [pc EXCEPT ![s] = "done"]
    /\ UNCHANGED <<username, button, user_df, edited_user_df, historyVars>>

\* lines 144-145
UndoClick(s) ==
    /\ pc[s] = "loaded"
    /\ button[s] = "undo"
    /\ Call(s, "undo", undo(SessionState(s)))
    /\ Display(s, user_df[s])
    /\ pc' = [pc EXCEPT ![s] = "done"]
    /\ UNCHANGED <<backendVars, username, button, df, user_df, edited_user_df,
                   category_text>>

\* lines 147-148
RedoClick(s) ==
    /\ pc[s] = "loaded"
    /\ button[s] = "redo"
    /\ Call(s, "redo", redo(SessionState(s)))
    /\ Display(s, user_df[s])
    /\ pc' = [pc EXCEPT ![s] = "done"]
    /\ UNCHANGED <<backendVars, username, button, df, user_df, edited_user_df,
                   category_text>>

\* lines 152-160: the editor is shown for a non-empty partition and returns
\* the partition with the user's edits applied
SaveChanges(s, outputs) ==
    /\ pc[s] = "loaded"
    /\ button[s] = "save"
    /\ user_df[s] # <<>>
    /\ \E edited \in outputs :
          /\ Len(others(df[s], username[s])) + Len(edited) <= MaxRows
          /\ edited_user_df' = [edited_user_df EXCEPT ![s] = edited]
          /\ df' = [df EXCEPT ![s] = reconcile(df[s], username[s], edited)]
          /\ save_data(reconcile(df[s], username[s], edited))
          /\ user_df' = [user_df EXCEPT ![s] = edited]
          /\ Display(s, edited)
    /\ pc' = [pc EXCEPT ![s] = "done"]
    /\ UNCHANGED <<username, button, category_text, historyVars>>

\* the run renders the page and no handler fires: no button was pressed, or
\* the Save Changes button is not rendered for an empty partition (line 152)
Render(s) ==
    /\ pc[s] = "loaded"
    /\ \/ button[s] = "none"
       \/ button[s] = "save" /\ user_df[s] = <<>>
    /\ Display(s, user_df[s])
    /\ pc' = [pc EXCEPT ![s] = "done"]
    /\ UNCHANGED <<backendVars, username, button, df, user_df, edited_user_df,
                   category_text, historyVars>>

\* one browser session using the application
Next ==
    \/ Begin("s1", NameInputs, Buttons)
    \/ AddExpense("s1")
    \/ UndoClick("s1")
    \/ RedoClick("s1")
    \/ SaveChanges("s1", EditorOutputs)
    \/ Render("s1")

Spec == Init /\ [][Next]_vars

\* two browser sessions, each logged in as its own user, each loading and
\* saving edits of its own rows against the shared backend (no locking)
RaceUser == [s \in Sessions |-> IF s = "s1" THEN DefaultUser ELSE "Ann"]
RaceOutputs(s) == SeqsUpTo({Row("Food", i, RaceUser[s]) : i \in Items}, MaxPart)

RaceNext ==
    \E s \in Sessions :
        \/ Begin(s, {RaceUser[s]}, {"none", "save"})
        \/ SaveChanges(s, RaceOutputs(s))
        \/ Render(s)

SpecRace == Init /\ [][RaceNext]_vars

\* the History Manager on its own: its three functions and the assignment of
\* a partition to st.session_state.df (line 95), called in every order
HistoryInputs ==
    { <<>>,
      <<Row("Food", "x", "User1")>>,
      <<Row("Food", "y", "User1")>>,
      <<Row("Food", "x", "User1"), Row("Food", "y", "User1")>> }

Checkpoint(s) ==
    /\ Len(history[s]) < MaxHist
    /\ Call(s, "save_state", save_state(SessionState(s)))
    /\ UNCHANGED <<backendVars, scriptVars>>

Mutate(s) ==
    /\ \E p \in HistoryInputs : Call(s, "assign", assign(SessionState(s), p))
    /\ UNCHANGED <<backendVars, scriptVars>>

Undo(s) ==
    /\ Call(s, "undo", undo(SessionState(s)))
    /\ UNCHANGED <<backendVars, scriptVars>>

Redo(s) ==
    /\ Call(s, "redo", redo(SessionState(s)))
    /\ UNCHANGED <<backendVars, scriptVars>>

HistoryNext ==
    \/ Checkpoint("s1")
    \/ Mutate("s1")
    \/ Undo("s1")
    \/ Redo("s1")

SpecHistory == Init /\ [][HistoryNext]_vars

\* the Aggregator on its own: the summary and trend sections (lines 162-222)
\* computed for partitions of one user spanning years, months, categories,
\* items, whole, fractional and zero quantities.  df and the stored records
\* play no part in the two sections and are left empty.
AggregateRows ==
    { Expense("2023-01-15", "Food", "Milk", 300, 2000, DefaultUser),
      Expense("2023-01-20", "Food", "Milk", 400, 2000, DefaultUser),
      Expense("2023-02-01", "Transport", "Bus", 2000, 0, DefaultUser),
      Expense("2023-10-05", "Food", "Rice", 500, 500, DefaultUser),
      Expense("2024-01-10", "Transport", "Bus", 1000, 1000, DefaultUser) }

AggregateInputs == SeqsUpTo(AggregateRows, MaxAgg)

\* the session has loaded one of the partitions as the default user
AggregateInit ==
    /\ USE_GOOGLE_SHEETS \in BOOLEAN
    /\ exists = TRUE /\ hasUserCol = TRUE
    /\ \E partition_df \in AggregateInputs :
          /\ records = <<>>
          /\ df = [s \in Sessions |-> <<>>]
          /\ user_df = [s \in Sessions |-> IF s = "s1" THEN partition_df ELSE <<>>]
          /\ sess_df = [s \in Sessions |-> IF s = "s1" THEN partition_df ELSE <<>>]
    /\ pc = [s \in Sessions |-> IF s = "s1" THEN "loaded" ELSE "idle"]
    /\ username = [s \in Sessions |-> IF s = "s1" THEN DefaultUser ELSE ""]
    /\ button = [s \in Sessions |-> "none"]
    /\ edited_user_df = [s \in Sessions |-> <<>>]
    /\ category_text = [s \in Sessions |-> ""]
    /\ summary = [s \in Sessions |-> YearMonthSummary(<<>>)]
    /\ trend = [s \in Sessions |-> PriceTrend(<<>>, "")]
    /\ history = [s \in Sessions |-> <<>>]
    /\ redo_stack = [s \in Sessions |-> <<>>]
    /\ lastOp = [s \in Sessions |-> "none"]

\* lines 162-222 applied to the loaded partition
Aggregate(s) ==
    /\ pc[s] = "loaded"
    /\ Display(s, user_df[s])
    /\ pc' = [pc EXCEPT ![s] = "done"]
    /\ UNCHANGED <<backendVars, username, button, df, user_df, edited_user_df,
                   category_text, historyVars>>

AggregateNext == Aggregate("s1")

SpecAggregate == AggregateInit /\ [][AggregateNext]_vars

----------------------------------------------------------------------------
(* Properties *)

EndStates == {"idle", "stopped", "failed", "done"}

\* the table a successful load would return now (lines 89-91)
Stored == default_owner(hasUserCol, load_data(exists, hasUserCol, records))

\* session s takes the Save Changes step (lines 154-160)
SaveStep(s) ==
    /\ pc[s] = "loaded" /\ button[s] = "save" /\ user_df[s] # <<>>
    /\ pc'[s] # pc[s]

\* session s has run Save Changes in its last run
Saved(s) == pc[s] = "done" /\ button[s] = "save" /\ sess_df[s] # <<>>

\* C1: the table written by Save Changes holds, as a multiset, exactly the
\* loaded rows of the other users plus the rows of the edited partition; a
\* row of the user survives only if the edited partition has it, and none
\* survives when the edited partition is empty.
C1_ReconcileContents ==
    [][\A s \in Sessions : SaveStep(s) =>
          LET T == df[s]
              U == username[s]
              P == edited_user_df'[s]
              W == df'[s]
          IN  /\ BagOf(W) = BagOf(others(T, U)) (+) BagOf(P)
              /\ records' = written(W)
              /\ \A r \in Range(W) : r.User = U => r \in Range(P)
              /\ P = <<>> => partition(W, U) = <<>>]_vars

C1_Witness ==
    /\ Saved("s1")
    /\ edited_user_df["s1"] = <<>>
    /\ df["s1"] # <<>>
    /\ partition(Stored, username["s1"]) = <<>>

\* C2: saving the unedited partition writes a table with the same multiset of
\* rows as the loaded table.
C2_RoundTrip ==
    [][\A s \in Sessions :
          /\ SaveStep(s) /\ edited_user_df'[s] = user_df[s] =>
                BagOf(df'[s]) = BagOf(df[s])
          /\ pc[s] = "loaded" =>
                \A u \in Users :
                    BagOf(reconcile(df[s], u, partition(df[s], u))) = BagOf(df[s])]_vars

C2_Witness ==
    /\ Saved("s1")
    /\ edited_user_df["s1"] = sess_df["s1"]
    /\ Len(df["s1"]) > Len(edited_user_df["s1"])

\* C3: a save by user U leaves the rows owned by the other users untouched:
\* the rows with User # U of the saved table are those of the loaded table,
\* in the same order.
C3_OthersUntouched ==
    [][\A s \in Sessions : SaveStep(s) =>
          others(df'[s], username[s]) = others(df[s], username[s])]_vars

\* C4: every row appended from the edited partition has User equal to the
\* session's user, whatever the editor did to the row.
C4_AppendedRowsOwned ==
    [][\A s \in Sessions : SaveStep(s) =>
          \A r \in Range(edited_user_df'[s]) : r.User = username[s]]_vars

\* C5: with two sessions of different users and no locking, a save rewrites
\* every other user's rows from the copy the saver loaded, whatever the
\* backend holds by then; so when both load and then both save, the change
\* of the first saver is absent from the backend.
C5_SaveOverwritesFromLoadedCopy ==
    [][\A s \in Sessions : SaveStep(s) =>
          /\ partition(Stored', username[s]) = edited_user_df'[s]
          /\ \A t \in Sessions \ {s} :
                partition(Stored', RaceUser[t]) = partition(df[s], RaceUser[t])]_vars

\* both sessions have saved, the edit saved by s is not in the backend, and
\* the backend again holds the rows s had loaded before editing
C5_Witness ==
    \E s \in Sessions : \E t \in Sessions \ {s} :
        /\ Saved(s) /\ Saved(t)
        /\ username[s] # username[t]
        /\ edited_user_df[s] # sess_df[s]
        /\ partition(Stored, username[s]) # edited_user_df[s]
        /\ partition(Stored, username[s]) = sess_df[s]

\* C6: from working state S0, after a checkpoint and a mutation to S1, undo
\* yields S0 and a following redo yields S1; undo then redo restores the
\* exact state held before the undo.
C6_UndoRedoInverse ==
    \A s \in Sessions :
        LET ss == SessionState(s)
        IN  /\ \A p \in HistoryInputs :
                 LET s1 == assign(save_state(ss), p)
                 IN  /\ undo(s1).df = ss.df
                     /\ redo(undo(s1)).df = p
                     /\ redo(undo(s1)) = s1
            /\ ss.history # <<>> => redo(undo(ss)) = ss

\* a redo has restored a state that differs from the checkpoint below it
C6_Witness ==
    /\ lastOp["s1"] = "redo"
    /\ history["s1"] # <<>>
    /\ sess_df["s1"] # Last(history["s1"])
    /\ sess_df["s1"] # <<>>

\* C7: the redo stack is empty right after every checkpoint; after an undo
\* followed by a checkpoint and a mutation, redo is a no-op.
C7_CheckpointClearsRedo ==
    \A s \in Sessions :
        LET ss == SessionState(s)
        IN  /\ lastOp[s] = "save_state" => redo_stack[s] = <<>>
            /\ \A p \in HistoryInputs :
                 LET s2 == assign(save_state(undo(ss)), p)
                 IN  /\ s2.redo_stack = <<>>
                     /\ redo(s2) = s2

\* a checkpoint taken after an undo: the undone state is in neither stack
C7_Witness ==
    /\ lastOp["s1"] = "save_state"
    /\ Len(history["s1"]) = 1
    /\ history["s1"][1] = sess_df["s1"]
    /\ sess_df["s1"] # <<>>

\* C8: undo with an empty undo stack and redo with an empty redo stack change
\* neither the working state nor the stacks, and the run completes.
C8_UnderflowNoOp ==
    [][\A s \in Sessions :
          /\ (pc[s] = "loaded" /\ button[s] = "undo" /\ pc'[s] # pc[s] /\ history[s] = <<>>) =>
                /\ SessionState(s)' = SessionState(s)
                /\ pc'[s] = "done"
          /\ (pc[s] = "loaded" /\ button[s] = "redo" /\ pc'[s] # pc[s] /\ redo_stack[s] = <<>>) =>
                /\ SessionState(s)' = SessionState(s)
                /\ pc'[s] = "done"]_vars

C8_Witness ==
    /\ pc["s1"] = "done"
    /\ button["s1"] = "redo"
    /\ lastOp["s1"] = "redo"
    /\ sess_df["s1"] # <<>>
    /\ history["s1"] = <<>> /\ redo_stack["s1"] = <<>>

\* C9: load never raises: whatever the condition of the backend the run gets
\* a table, and that table has no rows when the backend is empty or absent.
C9_LoadNeverRaises ==
    \A s \in Sessions :
        /\ pc[s] # "failed"
        /\ (pc[s] = "loaded" /\ (~exists \/ records = <<>>)) => df[s] = <<>>

\* a run of the session of Spec starts with a name that is empty after
\* trimming (every step of Spec from an end state is the start of a run)
EmptyLogin(s) == s = "s1" /\ pc[s] \in EndStates /\ username'[s] = ""

\* C10, as claimed: a run with an empty username halts; it loads, partitions
\* and saves nothing, leaves the history alone, and the backend is unchanged.
C10_HaltLeavesBackend ==
    [][\A s \in Sessions : EmptyLogin(s) =>
          /\ pc'[s] = "stopped"
          /\ df'[s] = <<>> /\ user_df'[s] = <<>> /\ edited_user_df'[s] = <<>>
          /\ SessionState(s)' = SessionState(s)
          /\ UNCHANGED <<exists, hasUserCol, records>>]_vars

\* C10, amended: a run with an empty username halts; it loads, partitions and
\* saves nothing and leaves the history alone; the stored records are
\* unchanged, and the only effect on the backend is that the storage set-up
\* creates a missing worksheet holding the schema header.
C10_HaltLeavesRecords ==
    [][\A s \in Sessions : EmptyLogin(s) =>
          /\ pc'[s] = "stopped"
          /\ df'[s] = <<>> /\ user_df'[s] = <<>> /\ edited_user_df'[s] = <<>>
          /\ SessionState(s)' = SessionState(s)
          /\ records' = records
          /\ Stored' = Stored
          /\ <<exists, hasUserCol>>' # <<exists, hasUserCol>> =>
                created /\ exists' /\ hasUserCol' /\ records' = <<>>]_vars

\* a session that had loaded its rows is halted by an empty name
C10_Witness ==
    /\ pc["s1"] = "stopped"
    /\ username["s1"] = ""
    /\ sess_df["s1"] # <<>>
    /\ records # <<>>

\* C11: whenever a run has rendered the page with a working partition of zero
\* rows (also right after a save whose edited partition is empty), neither the
\* Year/Month summary nor the price trend has been computed, and the run
\* ended normally
C11_EmptyPartitionSkipsAggregates ==
    \A s \in Sessions :
        pc[s] = "done" /\ user_df[s] = <<>> =>
            /\ ~summary[s].shown /\ summary[s].years = <<>>
            /\ ~trend[s].shown /\ trend[s].series = <<>>

\* a save of an emptied partition has run and shows no aggregate
C11_Witness ==
    /\ pc["s1"] = "done" /\ button["s1"] = "save"
    /\ sess_df["s1"] # <<>> /\ user_df["s1"] = <<>>
    /\ ~summary["s1"].shown /\ ~trend["s1"].shown

\* the Aggregator has computed the PricePerUnit column of a session's partition
Priced(s) == pc[s] = "done" /\ trend[s].shown

\* C12 as stated: for every record with PricePaid >= 0 and Quantity >= 0 the
\* price per unit is PricePaid / max(Quantity, 1), fractional quantities
\* between 0 and 1 included
C12_DivisorFlooredAtOne ==
    \A s \in Sessions :
        Priced(s) =>
            \A k \in DOMAIN user_df[s] :
                LET r == user_df[s][k]
                    divisor == IF r.Quantity > 1000 THEN r.Quantity ELSE 1000
                IN  r.PricePaid >= 0 /\ r.Quantity >= 0 =>
                        trend[s].PricePerUnit[k].num * divisor
                            = r.PricePaid * 1000 * trend[s].PricePerUnit[k].den

\* C12 amended: for every record with PricePaid >= 0 and Quantity >= 0 the
\* price per unit is PricePaid / Quantity when Quantity is not 0 (fractional
\* quantities between 0 and 1 divide as they are) and PricePaid when Quantity
\* is 0; the division never fails
C12_ZeroQuantityDividesByOne ==
    \A s \in Sessions :
        Priced(s) =>
            \A k \in DOMAIN user_df[s] :
                LET r == user_df[s][k]
                    divisor == IF r.Quantity = 0 THEN 1000 ELSE r.Quantity
                IN  r.PricePaid >= 0 /\ r.Quantity >= 0 =>
                        /\ trend[s].PricePerUnit[k].den > 0
                        /\ trend[s].PricePerUnit[k].num * divisor
                               = r.PricePaid * 1000 * trend[s].PricePerUnit[k].den

\* a partition holding a zero quantity and a quantity of one half is priced
C12_Witness ==
    /\ Priced("s1")
    /\ \E k \in DOMAIN user_df["s1"] :
          /\ user_df["s1"][k].Quantity = 0
          /\ trend["s1"].PricePerUnit[k] = [num |-> user_df["s1"][k].PricePaid, den |-> 1]
    /\ \E k \in DOMAIN user_df["s1"] :
          /\ user_df["s1"][k].Quantity = 500
          /\ trend["s1"].PricePerUnit[k] = [num |-> 2 * user_df["s1"][k].PricePaid, den |-> 1]

\* the calendar month a YearMonth text "YYYY-MM" names, as year * 12 + month
MonthOf(key) ==
    (key[1] * 1000 + key[2] * 100 + key[3] * 10 + key[4]) * 12 + key[5] * 10 + key[6]

\* C13: whatever the order of the records, the years of the summary ascend,
\* the months within a year ascend by month number (not by month name) and
\* are exactly the months of that year's records, and the trend of the
\* selected item has one entry per distinct Year-Month of that item's records
\* in ascending (year, month) order
C13_ChronologicalOrder ==
    \A s \in Sessions :
        Priced(s) /\ summary[s].shown =>
            LET years == summary[s].years
                series == trend[s].series
                dates == {to_datetime(r.Date) : r \in Range(user_df[s])}
                item_dates == {to_datetime(r.Date) :
                                  r \in {q \in Range(user_df[s]) : q.Item = trend[s].item}}
            IN  /\ \A i, j \in DOMAIN years : i < j => years[i].Year < years[j].Year
                /\ {years[i].Year : i \in DOMAIN years} = {d.year : d \in dates}
                /\ \A y \in DOMAIN years :
                      LET months == years[y].months
                      IN  /\ \A i, j \in DOMAIN months :
                                i < j => months[i].MonthNum < months[j].MonthNum
                          /\ \A i \in DOMAIN months :
                                months[i].Month = MonthNames[months[i].MonthNum]
                          /\ {months[i].MonthNum : i \in DOMAIN months}
                                = {d.month : d \in {e \in dates : e.year = years[y].Year}}
                /\ \A i, j \in DOMAIN series :
                      i < j => MonthOf(series[i].YearMonth) < MonthOf(series[j].YearMonth)
                /\ {MonthOf(series[i].YearMonth) : i \in DOMAIN series}
                      = {d.year * 12 + d.month : d \in item_dates}

\* records entered out of order: February 2023 before January 2023 and the
\* selected item bought in two months of different years
C13_Witness ==
    /\ Priced("s1")
    /\ Len(user_df["s1"]) = 3
    /\ user_df["s1"][1].Date = "2024-01-10"
    /\ user_df["s1"][2].Date = "2023-02-01"
    /\ user_df["s1"][3].Date = "2023-01-15"
    /\ summary["s1"].years[1].months[1].Month = "January"
    /\ summary["s1"].years[1].months[2].Month = "February"
    /\ Len(trend["s1"].series) = 2

\* the sum of the totals of a sequence of summary entries
RECURSIVE SumOfTotals(_)
SumOfTotals(entries) ==
    IF entries = <<>> THEN 0 ELSE Head(entries).total + SumOfTotals(Tail(entries))

\* a summary entry agrees with the records of its period: its total is the
\* sum of their PricePaid and its category and item figures are the sums of
\* PricePaid over the period's records of that category or item
EntryAgrees(entry, period_df) ==
    /\ entry.total = SumPrice(period_df)
    /\ DOMAIN entry.category = {r.Category : r \in Range(period_df)}
    /\ \A c \in DOMAIN entry.category :
          entry.category[c] = SumPrice(SelectSeq(period_df, LAMBDA r : r.Category = c))
    /\ DOMAIN entry.item = {r.Item : r \in Range(period_df)}
    /\ \A i \in DOMAIN entry.item :
          entry.item[i] = SumPrice(SelectSeq(period_df, LAMBDA r : r.Item = i))

\* C14: each year's total is the sum of PricePaid over exactly that year's
\* records and each month's total the sum over exactly that month's records,
\* so the month totals of a year add up to the year's total and the year
\* totals to the sum over the partition; the category and item figures of a
\* year or month are sums over that period's records only
C14_TotalsAreSumsOverPeriod ==
    \A s \in Sessions :
        pc[s] = "done" /\ summary[s].shown =>
            /\ SumOfTotals(summary[s].years) = SumPrice(user_df[s])
            /\ \A y \in DOMAIN summary[s].years :
                  LET year == summary[s].years[y]
                      year_df == SelectSeq(user_df[s],
                                     LAMBDA r : to_datetime(r.Date).year = year.Year)
                  IN  /\ EntryAgrees(year, year_df)
                      /\ SumOfTotals(year.months) = year.total
                      /\ \A m \in DOMAIN year.months :
                            LET month == year.months[m]
                                month_df == SelectSeq(year_df,
                                    LAMBDA r : to_datetime(r.Date).month = month.MonthNum)
                            IN  /\ EntryAgrees(month, month_df)
                                /\ month.transactions = month_df

\* two years, the first with two months and two categories, are summed
C14_Witness ==
    /\ pc["s1"] = "done" /\ summary["s1"].shown
    /\ Len(summary["s1"].years) = 2
    /\ summary["s1"].years[1].total = 2300
    /\ summary["s1"].years[1].category = [c \in {"Food", "Transport"} |->
                                              IF c = "Food" THEN 300 ELSE 2000]
    /\ Len(summary["s1"].years[1].months) = 2
    /\ summary["s1"].years[1].months[2].total = 2000
    /\ summary["s1"].years[2].total = 1000

\* a run of session s has carried out Add Expense
Added(s) == pc[s] = "done" /\ button[s] = "add"

\* C15: a checkpoint is recorded immediately before every state-mutating
\* action (Add Expense, a saved edit or delete), so once a run has carried out
\* a mutation the undo stack of the session is not empty
C15_MutationLeavesCheckpoint ==
    \A s \in Sessions : Added(s) \/ Saved(s) => history[s] # <<>>

\* C16: the stacks are scoped to one user: in every step that changes the
\* username of a session both stacks of the session are empty afterwards, no
\* stack ever holds a row of another user, and after an Undo or Redo click
\* the working snapshot st.session_state.df holds rows of the current user
\* only
C16_StacksScopedToUser ==
    [][\A s \in Sessions :
          /\ username'[s] # username[s] =>
                history'[s] = <<>> /\ redo_stack'[s] = <<>>
          /\ \A snapshot \in Range(history'[s]) \cup Range(redo_stack'[s]) :
                \A r \in Range(snapshot) : r.User = username'[s]
          /\ lastOp'[s] \in {"undo", "redo"} =>
                \A r \in Range(sess_df'[s]) : r.User = username'[s]]_vars

\* the session changed from the default user to Ann: the working snapshot
\* still holds the default user's rows (the read of Ann's run failed) and both
\* stacks are empty
C16_Witness ==
    /\ username["s1"] = "Ann" /\ pc["s1"] = "failed"
    /\ sess_df["s1"] # <<>>
    /\ \A r \in Range(sess_df["s1"]) : r.User = DefaultUser
    /\ history["s1"] = <<>> /\ redo_stack["s1"] = <<>>

\* the users owning a row of a table
Owners(table) == {r.User : r \in Range(table)} \ {None, ""}

\* C17: after load every record has an owner: a stored record without a User
\* value (the whole column absent, or only that record's value missing or
\* blank) has been given the default owner, so that every row of the loaded
\* table is in exactly one user's partition
C17_EveryLoadedRowOwned ==
    \A s \in Sessions :
        pc[s] = "loaded" =>
            \A k \in DOMAIN df[s] :
                /\ df[s][k].User \notin {None, ""}
                /\ Cardinality({u \in Owners(df[s]) :
                                   df[s][k] \in Range(partition(df[s], u))}) = 1

\* session s takes the step of an Undo or Redo click
HistoryClick(s) ==
    /\ pc[s] = "loaded" /\ button[s] \in {"undo", "redo"}
    /\ pc'[s] = "done"

\* C18: no handler calls save_state, so both stacks of every session are
\* empty in every reachable state, and an Undo or Redo click changes neither
\* the working partition, nor the working snapshot the table is displayed
\* from, nor the loaded table, nor what is saved
C18_HistoryNeverUsed ==
    [][\A s \in Sessions :
          /\ history[s] = <<>> /\ redo_stack[s] = <<>>
          /\ history'[s] = <<>> /\ redo_stack'[s] = <<>>
          /\ HistoryClick(s) =>
                /\ user_df'[s] = user_df[s]
                /\ sess_df'[s] = sess_df[s]
                /\ df'[s] = df[s]
                /\ backendVars' = backendVars]_vars

\* an Undo click on a non-empty partition of a full table has left everything
\* as it was
C18_Witness ==
    /\ pc["s1"] = "done" /\ button["s1"] = "undo" /\ lastOp["s1"] = "undo"
    /\ user_df["s1"] # <<>> /\ sess_df["s1"] = user_df["s1"]
    /\ records = written(df["s1"]) /\ Len(records) = MaxRows
    /\ history["s1"] = <<>> /\ redo_stack["s1"] = <<>>

\* session s takes the Add Expense step (lines 126-139)
AddStep(s) ==
    /\ pc[s] = "loaded" /\ button[s] = "add"
    /\ pc'[s] = "done"

\* what Add Expense leaves alone: the backend then holds the loaded table, row
\* for row and in order, followed by one row owned by the session's user, and
\* neither history stack has changed
AddFrame(s) ==
    /\ Len(records') = Len(df[s]) + 1
    /\ SubSeq(records', 1, Len(df[s])) = written(df[s])
    /\ Last(records').User = username[s]
    /\ category_text'[s] # "" => Last(records').Category = category_text'[s]
    /\ history'[s] = history[s] /\ redo_stack'[s] = redo_stack[s]

\* C19 as stated: Add Expense by user U writes the freshly loaded table
\* followed by exactly one new row whose User is U and whose Category is
\* 'Uncategorized' whenever the Category field was left blank; the loaded rows
\* are kept unchanged and in order and neither history stack changes
C19_AddAppendsOneRow ==
    [][\A s \in Sessions :
          AddStep(s) =>
              /\ AddFrame(s)
              /\ category_text'[s] = "" => Last(records').Category = "Uncategorized"]_vars

\* C19 amended: as stated, except that with the Category field left blank the
\* new row takes one of the categories the user's loaded partition already
\* has (the one picked in the selector), and 'Uncategorized' only when the
\* partition has no category
C19_AddAppendsOneRowSelectedCategory ==
    [][\A s \in Sessions :
          AddStep(s) =>
              /\ AddFrame(s)
              /\ category_text'[s] = "" =>
                    LET categories == {r.Category : r \in Range(user_df[s])}
                    IN  IF categories = {}
                        THEN Last(records').Category = "Uncategorized"
                        ELSE Last(records').Category \in categories]_vars

\* Ann has added a row, the Category left blank, to a table holding a row of
\* hers: the new row has the category of her row
C19_Witness ==
    /\ pc["s1"] = "done" /\ button["s1"] = "add" /\ username["s1"] = "Ann"
    /\ category_text["s1"] = ""
    /\ Len(records) = 2
    /\ records[1].User = "Ann" /\ records[1].Category = "Food"
    /\ records[2].User = "Ann" /\ records[2].Category = "Food"
    /\ history["s1"] = <<>> /\ redo_stack["s1"] = <<>>
====
